---- MODULE Spec2Model ----
(***************************************************************************)
(* A model of urify: the URL dissection and filtering core                 *)
(* (core/processor.py, core/schema.py), the declarative CLI layer          *)
(* (cli/__init__.py) and the command set that drives them over stdin       *)
(* (__main__.py).                                                          *)
(*                                                                         *)
(* Text is a sequence of one-character strings, so that parsing, slicing,  *)
(* searching and decoding are computed character by character as the code  *)
(* computes them.  Python's None is the record field `none`, an exception  *)
(* is the name of its class in a field `exc` ("" when nothing was raised). *)
(***************************************************************************)
EXTENDS Integers, Sequences, FiniteSets, TLC

(***************************************************************************)
(* Text helpers (Python str methods used by the code).                     *)
(***************************************************************************)
Range(s) == { s[i] : i \in 1..Len(s) }

RECURSIVE Concat(_)
Concat(ss) == IF ss = <<>> THEN <<>> ELSE Head(ss) \o Concat(Tail(ss))

\* s[i:] and s[:i] with Python's 0-based index i, 0 <= i.
From(s, i) == SubSeq(s, i + 1, Len(s))
Upto(s, i) == SubSeq(s, 1, IF i > Len(s) THEN Len(s) ELSE i)

OccursAt(s, sub, i) ==
    /\ i + Len(sub) - 1 <= Len(s)
    /\ SubSeq(s, i, i + Len(sub) - 1) = sub

\* str.find: the 0-based index of the first occurrence, -1 when there is none.
Find(s, sub) ==
    IF \E i \in 1..(Len(s) + 1) : OccursAt(s, sub, i)
    THEN (CHOOSE i \in 1..(Len(s) + 1) :
             /\ OccursAt(s, sub, i)
             /\ \A j \in 1..(i - 1) : ~OccursAt(s, sub, j)) - 1
    ELSE -1

\* str.rfind of one character: 0-based index of the last occurrence, or -1.
RFind(s, c) ==
    IF \E i \in 1..Len(s) : s[i] = c
    THEN (CHOOSE i \in 1..Len(s) :
             /\ s[i] = c
             /\ \A j \in (i + 1)..Len(s) : s[j] # c) - 1
    ELSE -1

Contains(s, sub) == Find(s, sub) >= 0

\* str.partition(sep): <<before, sep, after>>, or <<s, "", "">> without sep.
Partition(s, sep) ==
    LET i == Find(s, sep) IN
    IF i < 0 THEN << s, <<>>, <<>> >>
    ELSE << Upto(s, i), sep, From(s, i + Len(sep)) >>

\* str.rpartition(c) of one character: <<"", "", s>> without c.
RPartition(s, c) ==
    LET i == RFind(s, c) IN
    IF i < 0 THEN << <<>>, <<>>, s >>
    ELSE << Upto(s, i), <<c>>, From(s, i + 1) >>

\* str.split(c) of one character: every piece, empty ones included.
RECURSIVE Split(_, _)
Split(s, c) ==
    LET i == Find(s, <<c>>) IN
    IF i < 0 THEN <<s>>
    ELSE <<Upto(s, i)>> \o Split(From(s, i + 1), c)

\* sep.join(parts)
RECURSIVE Join(_, _)
Join(parts, sep) ==
    IF parts = <<>> THEN <<>>
    ELSE IF Len(parts) = 1 THEN parts[1]
    ELSE parts[1] \o sep \o Join(Tail(parts), sep)

\* str.strip(c) of one character.
RECURSIVE StripChar(_, _)
StripChar(s, c) ==
    IF s = <<>> THEN s
    ELSE IF s[1] = c THEN StripChar(Tail(s), c)
    ELSE IF s[Len(s)] = c THEN StripChar(SubSeq(s, 1, Len(s) - 1), c)
    ELSE s

RECURSIVE RStripChar(_, _)
RStripChar(s, c) ==
    IF s = <<>> THEN s
    ELSE IF s[Len(s)] = c THEN RStripChar(SubSeq(s, 1, Len(s) - 1), c)
    ELSE s

Digits == <<"0", "1", "2", "3", "4", "5", "6", "7", "8", "9">>
IsDigit(c) == c \in Range(Digits)
DigitVal(c) == (CHOOSE i \in 1..10 : Digits[i] = c) - 1

\* str.isdigit
IsDigits(s) == s # <<>> /\ \A i \in 1..Len(s) : IsDigit(s[i])

LowerLetters == {"a", "b", "c", "d", "e", "f", "g", "h", "i", "j", "k", "l", "m",
                 "n", "o", "p", "q", "r", "s", "t", "u", "v", "w", "x", "y", "z"}
UpperOf == [c \in {"H", "T", "P", "C", "O", "M"} |->
              CASE c = "H" -> "h" [] c = "T" -> "t" [] c = "P" -> "p"
                [] c = "C" -> "c" [] c = "O" -> "o" [] c = "M" -> "m"]
IsLetter(c) == c \in LowerLetters \/ c \in DOMAIN UpperOf

\* str.lower
Lower(s) == [i \in 1..Len(s) |-> IF s[i] \in DOMAIN UpperOf THEN UpperOf[s[i]] ELSE s[i]]

\* int(s) of a digit string, and str(n) of a natural number.
RECURSIVE ParseInt(_)
ParseInt(s) ==
    IF s = <<>> THEN 0
    ELSE 10 * ParseInt(SubSeq(s, 1, Len(s) - 1)) + DigitVal(s[Len(s)])

RECURSIVE IntToStr(_)
IntToStr(n) ==
    IF n < 10 THEN <<Digits[n + 1]>>
    ELSE IntToStr(n \div 10) \o <<Digits[(n % 10) + 1]>>

(***************************************************************************)
(* urllib.parse as processor.py uses it: unquote_plus, urlparse and the    *)
(* username, password and port accessors of its result.  Inputs carry no   *)
(* ';' parameters, no '[' IPv6 literals and no control characters.         *)
(***************************************************************************)
Ascii == <<" ", "!", "\"", "#", "$", "%", "&", "'", "(", ")", "*", "+", ",", "-", ".", "/",
           "0", "1", "2", "3", "4", "5", "6", "7", "8", "9", ":", ";", "<", "=", ">", "?",
           "@", "A", "B", "C", "D", "E", "F", "G", "H", "I", "J", "K", "L", "M", "N", "O",
           "P", "Q", "R", "S", "T", "U", "V", "W", "X", "Y", "Z", "[", "\\", "]", "^", "_",
           "<96>", "a", "b", "c", "d", "e", "f", "g", "h", "i", "j", "k", "l", "m", "n", "o",
           "p", "q", "r", "s", "t", "u", "v", "w", "x", "y", "z", "{", "|", "}", "~">>

\* The character of a decoded byte; a byte outside printable ASCII is a token
\* of its own, never equal to a character of the input alphabet.
Chr(n) == IF n >= 32 /\ n <= 126 THEN Ascii[n - 31] ELSE "<" \o ToString(n) \o ">"

HexLower == <<"0", "1", "2", "3", "4", "5", "6", "7", "8", "9", "a", "b", "c", "d", "e", "f">>
HexUpper == <<"0", "1", "2", "3", "4", "5", "6", "7", "8", "9", "A", "B", "C", "D", "E", "F">>
IsHex(c) == c \in Range(HexLower) \/ c \in Range(HexUpper)
HexVal(c) ==
    IF c \in Range(HexLower) THEN (CHOOSE i \in 1..16 : HexLower[i] = c) - 1
    ELSE (CHOOSE i \in 1..16 : HexUpper[i] = c) - 1

\* urllib.parse.unquote: every %XX with two hex digits becomes its byte, any other
\* '%' is kept.
RECURSIVE unquote(_)
unquote(s) ==
    IF s = <<>> THEN <<>>
    ELSE IF s[1] = "%" /\ Len(s) >= 3 /\ IsHex(s[2]) /\ IsHex(s[3])
         THEN <<Chr(16 * HexVal(s[2]) + HexVal(s[3]))>> \o unquote(From(s, 3))
    ELSE <<s[1]>> \o unquote(Tail(s))

\* urllib.parse.unquote_plus: '+' is a space, then unquote.
unquote_plus(s) == unquote([i \in 1..Len(s) |-> IF s[i] = "+" THEN " " ELSE s[i]])

scheme_chars == LowerLetters \cup DOMAIN UpperOf \cup Range(Digits) \cup {"+", "-", "."}

\* _splitnetloc(url, 2): the netloc ends at the first of '/', '?', '#'.
NetlocEnd(url) ==
    LET stops == { i \in 3..Len(url) : url[i] \in {"/", "?", "#"} } IN
    IF stops = {} THEN Len(url)
    ELSE (CHOOSE i \in stops : \A j \in stops : i <= j) - 1

\* ... the fragment comes off at the first '#', then the query at the first '?'.
SplitTail(scheme, netloc, fr) ==
    [scheme |-> scheme, netloc |-> netloc,
     path |-> Partition(fr[1], <<"?">>)[1],
     query |-> Partition(fr[1], <<"?">>)[3],
     fragment |-> fr[3]]

\* urlsplit after the scheme: `rest` is the text after it, `stop` the end of the
\* netloc within rest when rest starts with "//".
SplitRest(scheme, rest, hasNetloc, stop) ==
    SplitTail(scheme,
              IF hasNetloc THEN SubSeq(rest, 3, stop) ELSE <<>>,
              Partition(IF hasNetloc THEN From(rest, stop) ELSE rest, <<"#">>))

SplitNetloc(scheme, rest) ==
    SplitRest(scheme, rest, Upto(rest, 2) = <<"/", "/">>, NetlocEnd(rest))

\* A scheme ends at the first ':' when the text before it starts with a letter
\* and holds scheme characters only.
HasScheme(url, i) ==
    /\ i > 0
    /\ IsLetter(url[1])
    /\ \A k \in 1..i : url[k] \in scheme_chars

SplitScheme(url, i, hasScheme) ==
    SplitNetloc(IF hasScheme THEN Lower(Upto(url, i)) ELSE <<>>,
                IF hasScheme THEN From(url, i + 1) ELSE url)

\* urlsplit first removes every tab, carriage return and newline from the URL.
UnsafeToRemove == {"\t", "\r", "\n"}
RemoveUnsafe(url) == SelectSeq(url, LAMBDA c : c \notin UnsafeToRemove)

UrlSplit(url) == SplitScheme(url, Find(url, <<":">>), HasScheme(url, Find(url, <<":">>)))

\* urllib.parse.urlparse(url): scheme, netloc, path, query, fragment.
urlparse(url) == UrlSplit(RemoveUnsafe(url))

\* ParseResult.username / .password: None without userinfo (or without ':').
UserPass(rp, up) ==
    [have_info |-> rp[2] # <<>>, username |-> up[1],
     have_password |-> up[2] # <<>>, password |-> up[3]]

userinfo(netloc) ==
    UserPass(RPartition(netloc, "@"), Partition(RPartition(netloc, "@")[1], <<":">>))

\* ParseResult.port: None without a port, the integer of a decimal port, and
\* ValueError for any other text or a value above 65535.
PortOf(port) ==
    IF port = <<>> THEN [exc |-> "", none |-> TRUE, n |-> 0]
    ELSE IF ~IsDigits(port) THEN [exc |-> "ValueError", none |-> TRUE, n |-> 0]
    ELSE IF ParseInt(port) > 65535 THEN [exc |-> "ValueError", none |-> TRUE, n |-> 0]
    ELSE [exc |-> "", none |-> FALSE, n |-> ParseInt(port)]

parsed_port(netloc) == PortOf(Partition(RPartition(netloc, "@")[3], <<":">>)[3])

\* Python's str() of an Optional[int].
PyStr(p) == IF p.none THEN <<"N", "o", "n", "e">> ELSE IntToStr(p.n)

\* Python's `x or ''` on a string.
OrEmpty(x) == IF x = <<>> THEN <<>> ELSE x

(***************************************************************************)
(* tldextract.extract as processor.py calls it on a network location: the  *)
(* public suffix list is the authority, here a list of four suffixes.      *)
(***************************************************************************)
W_com == <<"c", "o", "m">>
W_org == <<"o", "r", "g">>
W_co == <<"c", "o">>
W_in == <<"i", "n">>
PublicSuffixes == { <<W_com>>, <<W_org>>, <<W_in>>, <<W_co, W_in>> }

\* looks_like_ip: four decimal labels, each 0..255.
LooksLikeIp(labels) ==
    /\ Len(labels) = 4
    /\ \A i \in 1..4 : IsDigits(labels[i]) /\ Len(labels[i]) <= 3 /\ ParseInt(labels[i]) <= 255

\* The number of labels before the longest public suffix (all of them without one).
SuffixIndex(labels) ==
    LET n == Len(labels)
        hits == { k \in 0..(n - 1) :
                    [j \in 1..(n - k) |-> Lower(labels[k + j])] \in PublicSuffixes }
    IN IF hits = {} THEN n ELSE CHOOSE k \in hits : \A m \in hits : k <= m

ExtractResult(subdomain, domain, suffix, ipv4) ==
    [subdomain |-> subdomain, domain |-> domain, suffix |-> suffix, ipv4 |-> ipv4,
     registered_domain |-> IF suffix # <<>> /\ domain # <<>>
                           THEN domain \o <<".">> \o suffix ELSE <<>>,
     fqdn |-> IF suffix # <<>> /\ domain # <<>>
              THEN Join(SelectSeq(<<subdomain, domain, suffix>>,
                                  LAMBDA x : x # <<>>), <<".">>)
              ELSE <<>>]

\* The split at label k, the number of labels before the public suffix; a host
\* without suffix that looks like an IPv4 address is the domain as a whole.
ExtractAt(host, labels, k, isip) ==
    ExtractResult(
        IF isip \/ k < 2 THEN <<>> ELSE Join(SubSeq(labels, 1, k - 1), <<".">>),
        IF isip THEN host ELSE IF k >= 1 THEN labels[k] ELSE <<>>,
        IF isip THEN <<>> ELSE Join(SubSeq(labels, k + 1, Len(labels)), <<".">>),
        IF isip THEN host ELSE <<>>)

ExtractLabels(host, labels, k) ==
    ExtractAt(host, labels, k, k = Len(labels) /\ LooksLikeIp(labels))

ExtractHost(host) == ExtractLabels(host, Split(host, "."), SuffixIndex(Split(host, ".")))

\* extract(netloc): userinfo and port are dropped, trailing dots stripped.
extract(netloc) ==
    ExtractHost(RStripChar(Partition(RPartition(netloc, "@")[3], <<":">>)[1], "."))

(***************************************************************************)
(* core/schema.py: QueryObject, UrlObject and its accessors.               *)
(***************************************************************************)
QueryObject(k, v) == [key |-> k, value |-> v]

\* UrlObject.stringify_port (validator, pre): an int port becomes its text.  A port
\* value is tagged: isint with n, or text s.
stringify_port(port) ==
    IF port.isint THEN [isint |-> FALSE, n |-> 0, s |-> IntToStr(port.n)] ELSE port

StrPort(s) == [isint |-> FALSE, n |-> 0, s |-> s]

\* UrlObject(**kw): the record as stored after validation.
UrlObject(kw) == [kw EXCEPT !.port = stringify_port(kw.port).s]

\* The accessors; an absent result (Python None) is none |-> TRUE.
UrlObject_keys(o) ==
    IF o.query = <<>> THEN [none |-> TRUE, val |-> <<>>]
    ELSE [none |-> FALSE, val |-> [i \in 1..Len(o.query) |-> o.query[i].key]]

UrlObject_values(o) ==
    IF o.query = <<>> THEN [none |-> TRUE, val |-> <<>>]
    ELSE [none |-> FALSE, val |-> [i \in 1..Len(o.query) |-> o.query[i].value]]

UrlObject_params(o) ==
    IF o.raw_query = <<>> THEN [none |-> TRUE, val |-> <<>>]
    ELSE [none |-> FALSE, val |-> Split(o.raw_query, "&")]

\* JSON text of a string: quotes around it, '"' and '\' escaped.
JsonString(s) ==
    <<"\"">> \o Concat([i \in 1..Len(s) |->
                          IF s[i] = "\"" THEN <<"\\", "\"">>
                          ELSE IF s[i] = "\\" THEN <<"\\", "\\">>
                          ELSE <<s[i]>>]) \o <<"\"">>

JsonQuery(q) ==
    <<"[">> \o Join([i \in 1..Len(q) |->
                       <<"{", "\"key\":">> \o JsonString(q[i].key)
                       \o <<",", "\"value\":">> \o JsonString(q[i].value) \o <<"}">>],
                    <<",">>) \o <<"]">>

\* UrlObject.json (model_dump_json): every stored field in declaration order.  A
\* field name with its colon is one element of the text.
UrlObject_json(o) ==
    <<"{", "\"scheme\":">> \o JsonString(o.scheme)
    \o <<",", "\"username\":">> \o JsonString(o.username)
    \o <<",", "\"password\":">> \o JsonString(o.password)
    \o <<",", "\"subdomain\":">> \o JsonString(o.subdomain)
    \o <<",", "\"domain\":">> \o JsonString(o.domain)
    \o <<",", "\"tld\":">> \o JsonString(o.tld)
    \o <<",", "\"port\":">> \o JsonString(o.port)
    \o <<",", "\"path\":">> \o JsonString(o.path)
    \o <<",", "\"raw_query\":">> \o JsonString(o.raw_query)
    \o <<",", "\"query\":">> \o JsonQuery(o.query)
    \o <<",", "\"fragment\":">> \o JsonString(o.fragment)
    \o <<",", "\"apex\":">> \o JsonString(o.apex)
    \o <<",", "\"fqdn\":">> \o JsonString(o.fqdn) \o <<"}">>

(***************************************************************************)
(* core/processor.py: querydissect and urldissect.                         *)
(***************************************************************************)
\* kvify(*parts): QueryObject(key=k, value=v) takes exactly two positional
\* arguments; any other number raises TypeError.
kvify(parts) ==
    IF Len(parts) = 2 THEN [exc |-> "", val |-> QueryObject(parts[1], parts[2])]
    ELSE [exc |-> "TypeError", val |-> QueryObject(<<>>, <<>>)]

\* The pieces one segment is split into: unquote_plus(q).split('=').
SegmentParts(q) == Split(unquote_plus(q), "=")

querydissect(query) ==
    IF query = <<>> THEN [exc |-> "", val |-> <<>>]
    ELSE LET segs == Split(query, "&")
             kv == [i \in 1..Len(segs) |-> kvify(SegmentParts(segs[i]))]
         IN IF \E i \in 1..Len(segs) : kv[i].exc # ""
            THEN [exc |-> "TypeError", val |-> <<>>]
            ELSE [exc |-> "", val |-> [i \in 1..Len(segs) |-> kv[i].val]]

NoUrlObject ==
    [scheme |-> <<>>, username |-> <<>>, password |-> <<>>, subdomain |-> <<>>,
     domain |-> <<>>, tld |-> <<>>, port |-> <<>>, path |-> <<>>, raw_query |-> <<>>,
     query |-> <<>>, fragment |-> <<>>, apex |-> <<>>, fqdn |-> <<>>]

\* Lines 49-63: the record, once the port and the query have been evaluated (in
\* this order, so a bad port raises before a bad query).
DissectFields(scheme, parsed, path, extracted, ui, port, query) ==
    IF port.exc # "" THEN [exc |-> port.exc, none |-> TRUE, obj |-> NoUrlObject]
    ELSE IF query.exc # "" THEN [exc |-> query.exc, none |-> TRUE, obj |-> NoUrlObject]
    ELSE [exc |-> "", none |-> FALSE,
          obj |-> UrlObject(
             [scheme |-> scheme,
              username |-> IF ui.have_info THEN OrEmpty(ui.username) ELSE <<>>,
              password |-> IF ui.have_info /\ ui.have_password
                           THEN OrEmpty(ui.password) ELSE <<>>,
              subdomain |-> extracted.subdomain,
              domain |-> extracted.domain,
              tld |-> extracted.suffix,
              port |-> StrPort(OrEmpty(PyStr(port))),
              path |-> path,
              raw_query |-> parsed.query,
              query |-> query.val,
              fragment |-> parsed.fragment,
              apex |-> extracted.registered_domain,
              fqdn |-> extracted.fqdn])]

\* Lines 42-45: the validity gate on the extracted host.
DissectExtracted(url, silent, scheme, parsed, path, extracted) ==
    IF extracted.ipv4 = <<>> /\ extracted.suffix = <<>> /\ scheme = <<>>
    THEN IF silent THEN [exc |-> "", none |-> TRUE, obj |-> NoUrlObject]
         ELSE [exc |-> "UrlError", none |-> TRUE, obj |-> NoUrlObject]
    ELSE DissectFields(scheme, parsed, path, extracted, userinfo(parsed.netloc),
                       parsed_port(parsed.netloc), querydissect(parsed.query))

\* Lines 34-40: without a netloc, the path up to its first '/' is the netloc.
DissectParsed(url, silent, scheme_flag, parsed, partitioned) ==
    DissectExtracted(url, silent,
        IF scheme_flag THEN parsed.scheme ELSE <<>>,
        parsed,
        IF parsed.netloc = <<>> THEN partitioned[2] \o partitioned[3] ELSE parsed.path,
        extract(IF parsed.netloc = <<>> THEN partitioned[1] ELSE parsed.netloc))

\* Lines 25-32: a URL without "://" is parsed with "http://" put before it.
DissectPrefixed(url, silent, scheme_flag, parsed) ==
    DissectParsed(url, silent, scheme_flag, parsed, Partition(parsed.path, <<"/">>))

DissectFlagged(url, silent, scheme_flag) ==
    DissectPrefixed(url, silent, scheme_flag,
                    urlparse(IF scheme_flag THEN url ELSE <<"h", "t", "t", "p", ":", "/", "/">> \o url))

\* urldissect(url, silent): exc names the exception raised ("" for none), none
\* says that None was returned, obj is the record otherwise.
urldissect(url, silent) == DissectFlagged(url, silent, Contains(url, <<":", "/", "/">>))

\* pathlib: Path(path).suffix.  The name is the last component that is neither
\* empty nor "."; its suffix starts at its last '.', unless that is its first or
\* its last character.
PathName(path) ==
    LET parts == SelectSeq(Split(path, "/"), LAMBDA c : c # <<>> /\ c # <<".">>)
    IN IF parts = <<>> THEN <<>> ELSE parts[Len(parts)]

PathSuffix(path) ==
    LET name == PathName(path)
        i == RFind(name, ".")
    IN IF 0 < i /\ i < Len(name) - 1 THEN From(name, i) ELSE <<>>

(***************************************************************************)
(* State.  Four groups of variables, one per part of the program:          *)
(*   d_*  one call of urldissect or querydissect on an input;              *)
(*   f_*  one UrlFilters construction followed by one call of urlfilter;   *)
(*   c_*  the Cli object: decorators registering options and commands,     *)
(*        then run() parsing an invocation;                                *)
(*   the rest: one run of a subcommand over stdin.                         *)
(***************************************************************************)
VARIABLES
    \* one call of urldissect / querydissect
    d_pc,          \* "url" | "query" before the call, "dissected" | "querydissected" after
    d_parts,       \* the parts the input URL was put together from
    d_in,          \* the input text
    d_silent,      \* urldissect's silent flag
    d_res,         \* urldissect's result
    d_qres,        \* querydissect's result
    \* one UrlFilters construction and one call of urlfilter
    f_pc,          \* "start", "constructed" | "failed", "filtered"
    f_kwargs,      \* the keyword arguments given to UrlFilters
    f_built,       \* the constructed UrlFilters (exc: the exception of a failure)
    f_url, f_absolute, f_return_obj,   \* urlfilter's arguments
    f_out,         \* urlfilter's result
    \* the Cli object and one invocation
    c_pc,          \* "registering", then "ran"
    c_pending,     \* Cli._pending_options
    c_stack,       \* the option decorators applied since the last command, in
                   \* the order they were applied (bottom-up in the source)
    c_commands,    \* Cli._registered_commands, with each sub-parser's arguments
    c_argv,        \* the invocation run() parsed
    c_outcome,     \* what run() did
    \* one run of a subcommand over stdin
    r_cmd,         \* the subcommand and, for filter, its parsed options
    r_pc,          \* "reading" | "processing" | "done" | "crashed"
    r_consumed,    \* the lines read_stdin has yielded, in order
    r_cur,         \* the line being processed
    runtime_cache, \* the dedup cache
    r_stdout,      \* the lines printed, in order
    r_exc,         \* the exception that ended the run ("" for none)
    r_sigint       \* whether an interrupt was delivered

dvars == <<d_pc, d_parts, d_in, d_silent, d_res, d_qres>>
fvars == <<f_pc, f_kwargs, f_built, f_url, f_absolute, f_return_obj, f_out>>
cvars == <<c_pc, c_pending, c_stack, c_commands, c_argv, c_outcome>>
rvars == <<r_cmd, r_pc, r_consumed, r_cur, runtime_cache, r_stdout, r_exc, r_sigint>>
vars == <<dvars, fvars, cvars, rvars>>

(***************************************************************************)
(* Inputs of the dissection checks: a URL is put together from a scheme    *)
(* prefix, a host, a port part, a path and a query part; a query from      *)
(* '&'-separated segments.                                                 *)
(***************************************************************************)
MaxSegments == 2

DSchemes == { <<>>,
      <<"h", "t", "t", "p", ":", "/", "/">>,
      <<"h", "t", "t", "p", "s", ":", "/", "/">> }
DHosts == { <<"h", "o", "s", "t">>,
      <<"a", ".", "c", "o", "m">>,
      <<"w", "w", "w", ".", "e", "x", "a", "m", "p", "l", "e", ".", "c", "o", "m">>,
      <<"1", ".", "2", ".", "3", ".", "4">> }
DPorts == { <<>>,
      <<":", "8", "0", "8", "0">>,
      <<":", "0", "8", "0">>,
      <<":", "8", "a">> }
DPaths == { <<>>,
      <<"/">>,
      <<"/", "i", "n", "d", "e", "x", ".", "p", "h", "p">> }
DQueries == { <<>>,
      <<"?", "a", "=", "1", "&", "b", "=", "2">>,
      <<"?", "a", "=", "b", "=", "c">>,
      <<"?", "a">>,
      <<"?", "a", "%", "3", "D", "b", "=", "c">>,
      <<"?", "x", "=", "a", "+", "b">> }
DSegments == { <<"a", "=", "1">>,
      <<"b", "=", "2">>,
      <<"a", "=", "b", "=", "c">>,
      <<"a">>,
      <<>>,
      <<"a", "%", "3", "D", "b", "=", "c">>,
      <<"x", "=", "a", "+", "b">>,
      <<"k", "=", "%", "2", "6">> }

UrlOf(p) == p.scheme \o p.host \o p.port \o p.path \o p.query

QueryInputs ==
    { Join(segs, <<"&">>) :
        segs \in UNION { [1..n -> DSegments] : n \in 1..MaxSegments } } \cup { <<>> }

NoParts == [scheme |-> <<>>, host |-> <<>>, port |-> <<>>, path |-> <<>>, query |-> <<>>]
NoResult == [exc |-> "", none |-> TRUE, obj |-> NoUrlObject]
NoQResult == [exc |-> "", val |-> <<>>]

DIdle ==
    /\ d_pc = "idle"
    /\ d_parts = NoParts
    /\ d_in = <<>>
    /\ d_silent = TRUE
    /\ d_res = NoResult
    /\ d_qres = NoQResult

DInit ==
    /\ d_res = NoResult
    /\ d_qres = NoQResult
    /\ \/ /\ d_pc = "url"
          /\ d_parts \in [scheme : DSchemes, host : DHosts, port : DPorts,
                          path : DPaths, query : DQueries]
          /\ d_in = UrlOf(d_parts)
          /\ d_silent \in BOOLEAN
       \/ /\ d_pc = "query"
          /\ d_parts = NoParts
          /\ d_in \in QueryInputs
          /\ d_silent = TRUE

\* urldissect(d_in, d_silent) is called.
Dissect ==
    /\ d_pc = "url"
    /\ d_res' = urldissect(d_in, d_silent)
    /\ d_pc' = "dissected"
    /\ UNCHANGED <<d_parts, d_in, d_silent, d_qres, fvars, cvars, rvars>>

\* querydissect(d_in) is called.
QueryDissect ==
    /\ d_pc = "query"
    /\ d_qres' = querydissect(d_in)
    /\ d_pc' = "querydissected"
    /\ UNCHANGED <<d_parts, d_in, d_silent, d_res, fvars, cvars, rvars>>

(***************************************************************************)
(* core/schema.py: UrlFilters.  A filter value is None or a collection of  *)
(* strings of kind "set", "list" or "tuple".  The keyword arguments of a   *)
(* construction are the names supplied, their values, and as_denylist.     *)
(***************************************************************************)
FilterNames == {"schemes", "subdomains", "domains", "tlds", "ports", "extensions",
                "apexes", "fqdns"}

None == [none |-> TRUE, kind |-> "none", items |-> {}]
Coll(kind, items) == [none |-> FALSE, kind |-> kind, items |-> items]

\* Python truthiness of a filter value: None and an empty collection are false.
Truthy(v) == ~v.none /\ v.items # {}

\* The extensions comprehension of validate_fields: "." + ext.strip('.').
NormalizeExtension(ext) == <<".">> \o StripChar(ext, ".")

\* UrlFilters.validate_fields (root validator, pre) on the supplied keyword
\* arguments: values.pop('extensions') and values.pop('as_denylist') raise KeyError
\* for a name that was not supplied; the loop over the other values rebinds a
\* local and stores nothing.  Then every field that is still absent takes its
\* declared default.
validate_fields(kw) ==
    IF "extensions" \notin kw.supplied \/ "as_denylist" \notin kw.supplied
    THEN [exc |-> "KeyError",
          sets |-> [n \in FilterNames |-> None], as_denylist |-> FALSE]
    ELSE LET extensions ==
                 IF Truthy(kw.vals["extensions"])
                 THEN Coll("set", { NormalizeExtension(e) : e \in kw.vals["extensions"].items })
                 ELSE kw.vals["extensions"]
         IN [exc |-> "",
             sets |-> [n \in FilterNames |->
                            IF n = "extensions" THEN extensions
                            ELSE IF n \in kw.supplied THEN kw.vals[n]
                            ELSE None],
             as_denylist |-> kw.as_denylist]

(***************************************************************************)
(* core/processor.py: urlfilter.                                           *)
(***************************************************************************)
\* filter_mappings: the filter name and the URL's component, in the code's order.
filter_mappings(o) ==
    << <<"schemes", o.scheme>>, <<"subdomains", o.subdomain>>, <<"domains", o.domain>>,
       <<"tlds", o.tld>>, <<"ports", o.port>>, <<"extensions", PathSuffix(o.path)>>,
       <<"apexes", o.apex>>, <<"fqdns", o.fqdn>> >>

\* The loop that fills filter_state: one flag per truthy filter set.
filter_state(sets, o) ==
    LET active == SelectSeq(filter_mappings(o), LAMBDA e : Truthy(sets[e[1]]))
    IN [i \in 1..Len(active) |-> active[i][2] \in sets[active[i][1]].items]

PyAll(flags) == \A i \in 1..Len(flags) : flags[i]
PyAny(flags) == \E i \in 1..Len(flags) : flags[i]

\* Lines 124-133: whether the URL is rejected, given at least one flag.
\* Rejects with the allow-list inversion of lines 127-128 left out.
Rejects_NoInversion(flags, as_denylist, absolute) ==
    IF absolute /\ PyAll(flags) THEN TRUE
    ELSE IF ~absolute /\ PyAny(flags) THEN TRUE
    ELSE FALSE

\* Rejects with only all_filters inverted on line 128, any_filter left as it is.
Rejects_AnyNotInverted(flags, as_denylist, absolute) ==
    IF absolute /\ (IF as_denylist THEN PyAll(flags) ELSE ~PyAll(flags)) THEN TRUE
    ELSE IF ~absolute /\ PyAny(flags) THEN TRUE
    ELSE FALSE

Rejects(flags, as_denylist, absolute) ==
    LET all_filters == IF as_denylist THEN PyAll(flags) ELSE ~PyAll(flags)
        any_filter == IF as_denylist THEN PyAny(flags) ELSE ~PyAny(flags)
    IN IF absolute /\ all_filters THEN TRUE
       ELSE IF ~absolute /\ any_filter THEN TRUE
       ELSE FALSE

Returned(url, o, return_obj) ==
    [exc |-> "", none |-> FALSE, isobj |-> return_obj, url |-> url, obj |-> o]

Absent == [exc |-> "", none |-> TRUE, isobj |-> FALSE, url |-> <<>>, obj |-> NoUrlObject]
Raised(e) == [exc |-> e, none |-> TRUE, isobj |-> FALSE, url |-> <<>>, obj |-> NoUrlObject]

\* Lines 121-135: the decision on the flags.
FilterDecision(url, o, flags, as_denylist, absolute, return_obj) ==
    IF flags = <<>> THEN Returned(url, o, return_obj)
    ELSE IF Rejects(flags, as_denylist, absolute) THEN Absent
    ELSE Returned(url, o, return_obj)

\* Lines 99-119 on the result of urldissect: its None is dereferenced at line
\* 100 (AttributeError).
FilterDissected(url, dis, filters, absolute, return_obj) ==
    IF dis.exc # "" THEN Raised(dis.exc)
    ELSE IF dis.none THEN Raised("AttributeError")
    ELSE FilterDecision(url, dis.obj, filter_state(filters.sets, dis.obj),
                        filters.as_denylist, absolute, return_obj)

\* urlfilter(url, filters, absolute, return_obj); urldissect runs with its
\* default silent=True.
urlfilter(url, filters, absolute, return_obj) ==
    FilterDissected(url, urldissect(url, TRUE), filters, absolute, return_obj)

\* The collection each filter name is given when it is given one.
FilterCandidate ==
    [n \in FilterNames |->
       CASE n = "schemes" -> Coll("set", {<<"h", "t", "t", "p", "s">>})
         [] n = "subdomains" -> Coll("list", {<<"w", "w", "w">>})
         [] n = "domains" -> Coll("set", {<<"e", "x", "a", "m", "p", "l", "e">>})
         [] n = "tlds" -> Coll("tuple", {<<"c", "o", "m">>})
         [] n = "ports" -> Coll("list", {<<"8", "0", "8", "0">>})
         [] n = "extensions" -> Coll("list", {<<"p", "h", "p">>, <<".", "p", "h", "p">>})
         [] n = "apexes" -> Coll("set", {<<"e", "x", "a", "m", "p", "l", "e", ".", "c", "o", "m">>})
         [] n = "fqdns" -> Coll("set", {<<"w", "w", "w", ".", "e", "x", "a", "m", "p", "l", "e", ".", "c", "o", "m">>})]

FilterValues(n) ==
    IF n = "domains" THEN {None, FilterCandidate[n], Coll("list", {})}
    ELSE {None, FilterCandidate[n]}

\* The sets of argument names a construction leaves out.
Omissions ==
    { {}, {"extensions"}, {"as_denylist"}, {"extensions", "as_denylist"}, {"domains"},
      {"schemes", "subdomains", "tlds", "ports", "extensions", "apexes", "fqdns",
       "as_denylist"},
      FilterNames \cup {"as_denylist"} }

KwargsInputs ==
    { kw \in [supplied : { (FilterNames \cup {"as_denylist"}) \ om : om \in Omissions },
              vals : [schemes : FilterValues("schemes"),
                      subdomains : FilterValues("subdomains"),
                      domains : FilterValues("domains"),
                      tlds : FilterValues("tlds"),
                      ports : FilterValues("ports"),
                      extensions : FilterValues("extensions"),
                      apexes : FilterValues("apexes"),
                      fqdns : FilterValues("fqdns")],
              as_denylist : BOOLEAN] :
        /\ \A n \in FilterNames : n \notin kw.supplied => kw.vals[n] = None
        /\ "as_denylist" \notin kw.supplied => kw.as_denylist = FALSE }

FUrls == { <<"h", "t", "t", "p", "s", ":", "/", "/", "w", "w", "w", ".", "e", "x", "a", "m", "p", "l", "e", ".", "c", "o", "m", "/", "i", "n", "d", "e", "x", ".", "p", "h", "p">>,
      <<"h", "t", "t", "p", "s", ":", "/", "/", "w", "w", "w", ".", "e", "x", "a", "m", "p", "l", "e", ".", "c", "o", "m", "/", "i", "n", "d", "e", "x", ".", "h", "t", "m", "l">>,
      <<"h", "t", "t", "p", "s", ":", "/", "/", "w", "w", "w", ".", "d", "i", "f", "f", "e", "r", "e", "n", "t", ".", "c", "o", "m", "/", "i", "n", "d", "e", "x", ".", "p", "h", "p">>,
      <<"h", "t", "t", "p", ":", "/", "/", "a", ".", "c", "o", "m", ":", "8", "0", "8", "0", "/", "x">>,
      <<"w", "w", "w", ".", "e", "x", "a", "m", "p", "l", "e", ".", "c", "o", "m">>,
      <<"f", "o", "o">> }

NoBuilt == [exc |-> "", sets |-> [n \in FilterNames |-> None], as_denylist |-> FALSE]
NoKwargs == [supplied |-> {}, vals |-> [n \in FilterNames |-> None], as_denylist |-> FALSE]

FIdle ==
    /\ f_pc = "idle"
    /\ f_kwargs = NoKwargs
    /\ f_built = NoBuilt
    /\ f_url = <<>>
    /\ f_absolute = FALSE
    /\ f_return_obj = FALSE
    /\ f_out = Absent

FInit ==
    /\ f_pc = "start"
    /\ f_kwargs \in KwargsInputs
    /\ f_built = NoBuilt
    /\ f_url = <<>>
    /\ f_absolute = FALSE
    /\ f_return_obj = FALSE
    /\ f_out = Absent

\* UrlFilters(**f_kwargs)
Construct ==
    /\ f_pc = "start"
    /\ f_built' = validate_fields(f_kwargs)
    /\ f_pc' = IF f_built'.exc = "" THEN "constructed" ELSE "failed"
    /\ UNCHANGED <<f_kwargs, f_url, f_absolute, f_return_obj, f_out, dvars, cvars, rvars>>

\* urlfilter(url, filters, absolute, return_obj) on the constructed filters.
Filter ==
    /\ f_pc = "constructed"
    /\ \E url \in FUrls, absolute \in BOOLEAN, return_obj \in BOOLEAN :
          /\ f_url' = url
          /\ f_absolute' = absolute
          /\ f_return_obj' = return_obj
          /\ f_out' = urlfilter(url, f_built, absolute, return_obj)
    /\ f_pc' = "filtered"
    /\ UNCHANGED <<f_kwargs, f_built, dvars, cvars, rvars>>

(***************************************************************************)
(* __main__.py: the dedup cache, the output policies, the line source and  *)
(* the commands.                                                           *)
(***************************************************************************)
MaxLines == 3

DissectCommands == {"keys", "values", "params", "path", "apex", "fqdn", "json"}
MultiValued == {"keys", "values", "params"}

\* getattr(dissected, attr): none |-> TRUE is Python's None.
GetAttr(o, attr) ==
    CASE attr = "keys" -> UrlObject_keys(o)
      [] attr = "values" -> UrlObject_values(o)
      [] attr = "params" -> UrlObject_params(o)
      [] attr = "path" -> [none |-> FALSE, val |-> o.path]
      [] attr = "apex" -> [none |-> FALSE, val |-> o.apex]
      [] attr = "fqdn" -> [none |-> FALSE, val |-> o.fqdn]
      [] attr = "json" -> [none |-> FALSE, val |-> UrlObject_json(o)]

\* Every order a set may be iterated in.
Orderings(S) ==
    { s \in [1..Cardinality(S) -> S] : \A i, j \in 1..Cardinality(S) : s[i] = s[j] => i = j }

\* print_unique writing the new value ahead of the output so far.
print_unique_Prepending(value) ==
    IF value.none \/ value.val = <<>>
    THEN UNCHANGED <<r_stdout, runtime_cache>>
    ELSE IF value.val \notin runtime_cache
    THEN /\ r_stdout' = <<value.val>> \o r_stdout
         /\ runtime_cache' = runtime_cache \cup {value.val}
    ELSE UNCHANGED <<r_stdout, runtime_cache>>

\* print_uniques without the subtraction of the cache on line 27.
print_uniques_NoCache(values) ==
    IF values.none
    THEN UNCHANGED <<r_stdout, runtime_cache>>
    ELSE /\ \E order \in Orderings(Range(values.val)) :
               r_stdout' = r_stdout \o order
         /\ runtime_cache' = runtime_cache \cup Range(values.val)

\* print_unique(value)
print_unique(value) ==
    IF value.none \/ value.val = <<>>
    THEN UNCHANGED <<r_stdout, runtime_cache>>
    ELSE IF value.val \notin runtime_cache
    THEN /\ r_stdout' = Append(r_stdout, value.val)
         /\ runtime_cache' = runtime_cache \cup {value.val}
    ELSE UNCHANGED <<r_stdout, runtime_cache>>

\* print_uniques(values): the set difference is printed in the set's iteration
\* order, which the language leaves open.
print_uniques(values) ==
    IF values.none
    THEN UNCHANGED <<r_stdout, runtime_cache>>
    ELSE /\ \E order \in Orderings(Range(values.val) \ runtime_cache) :
               r_stdout' = r_stdout \o order
         /\ runtime_cache' = runtime_cache \cup (Range(values.val) \ runtime_cache)

\* str.strip(): whitespace off both ends.
Whitespace == {" ", "\n", "\t", "\r"}
RECURSIVE PyStrip(_)
PyStrip(s) ==
    IF s = <<>> THEN s
    ELSE IF s[1] \in Whitespace THEN PyStrip(Tail(s))
    ELSE IF s[Len(s)] \in Whitespace THEN PyStrip(SubSeq(s, 1, Len(s) - 1))
    ELSE s

\* The parameters urlfilter declares (processor.py lines 66-68).
urlfilter_parameters == {"url", "filters", "absolute", "return_obj"}

\* A call of urlfilter by keyword: a keyword that is no parameter raises
\* TypeError before the body runs; a parameter not given takes its default.
CallUrlfilter(kw) ==
    IF ~(DOMAIN kw \subseteq urlfilter_parameters) THEN Raised("TypeError")
    ELSE urlfilter(kw.url, kw.filters,
                   IF "absolute" \in DOMAIN kw THEN kw.absolute ELSE FALSE,
                   IF "return_obj" \in DOMAIN kw THEN kw.return_obj ELSE FALSE)

\* filter_command's middleware (lines 166-168) applied to a line:
\* partial(processor.urlfilter, filters=filters, strict=strict, return_obj=True)(url=url)
FilterMiddleware(cmd, url) ==
    CallUrlfilter([filters |-> cmd.filters, strict |-> cmd.strict,
                   return_obj |-> TRUE, url |-> url])

\* The middleware of a command on a line: processor.urldissect for the seven
\* dissecting commands.
Middleware(cmd, url) ==
    IF cmd.name = "filter" THEN FilterMiddleware(cmd, url)
    ELSE urldissect(url, TRUE)

\* The attribute a command extracts and whether its callback is print_uniques.
AttrOf(cmd) == IF cmd.name = "filter" THEN cmd.dissect ELSE cmd.name
UsesUniques(cmd) == AttrOf(cmd) \in MultiValued

\* Whether the command runs process_stdin (filter without -dissect runs its
\* own loop).
UsesProcessStdin(cmd) == cmd.name # "filter" \/ cmd.dissect # ""

\* The regular expression of line 176 substituted by "0": a run of digits right
\* after '/' or '=' that ends at a word boundary.
IsWordChar(c) == IsLetter(c) \/ IsDigit(c) \/ c = "_"

RECURSIVE DigitRun(_, _)
DigitRun(s, i) == IF i <= Len(s) /\ IsDigit(s[i]) THEN 1 + DigitRun(s, i + 1) ELSE 0

RECURSIVE SubDigits(_, _)
SubDigits(s, i) ==
    IF i > Len(s) THEN <<>>
    ELSE IF /\ i > 1
            /\ s[i - 1] \in {"/", "="}
            /\ DigitRun(s, i) > 0
            /\ (i + DigitRun(s, i) > Len(s) \/ ~IsWordChar(s[i + DigitRun(s, i)]))
         THEN <<"0">> \o SubDigits(s, i + DigitRun(s, i))
    ELSE <<s[i]>> \o SubDigits(s, i + 1)

\* url[0:separator] and url[separator:] with Python's slice rules (a negative
\* index counts from the end).
SliceStart(url, sep) == IF sep < 0 THEN (IF Len(url) + sep < 0 THEN 0 ELSE Len(url) + sep) ELSE sep

clean_url(url, separator) ==
    Upto(url, SliceStart(url, separator)) \o SubDigits(From(url, SliceStart(url, separator)), 1)

(***************************************************************************)
(* Inputs of a run: the command and the lines on stdin.                    *)
(***************************************************************************)
RawLines == { <<"h", "t", "t", "p", "s", ":", "/", "/", "a", ".", "c", "o", "m", "/", "p", "?", "i", "d", "=", "1", "\n">>,
      <<"h", "t", "t", "p", ":", "/", "/", "b", ".", "a", ".", "c", "o", "m", "/", "p", "?", "i", "d", "=", "2", "&", "i", "d", "=", "1", "&", "i", "d", "=", "2", "\n">>,
      <<" ", "w", "w", "w", ".", "e", "x", "a", "m", "p", "l", "e", ".", "c", "o", "m", " ", "\n">>,
      <<"f", "o", "o", "\n">>,
      <<"a", ".", "c", "o", "m", "/", "?", "a", "\n">>,
      <<"a", ".", "c", "o", "m", "/", "p", "\t", "q", "\n">>,
      <<"h", "t", "t", "p", "s", ":", "/", "/", "a", ".", "c", "o", "m", "/", "p", "/", "7", "?", "i", "d", "=", "1", "\n">> }

\* The keyword arguments filter_command builds UrlFilters from: every name is
\* supplied, an option not given on the command line is None.
RunKwargs ==
    { [supplied |-> FilterNames \cup {"as_denylist"},
       vals |-> [n \in FilterNames |-> IF n \in given THEN FilterCandidate[n] ELSE None],
       as_denylist |-> inv] :
        given \in { {}, {"domains"} }, inv \in BOOLEAN }

RunCommands ==
    { [name |-> n, filters |-> NoBuilt, strict |-> FALSE, dissect |-> ""] :
        n \in DissectCommands }
    \cup { [name |-> "filter", filters |-> validate_fields(kw), strict |-> s, dissect |-> d] :
             kw \in RunKwargs, s \in BOOLEAN, d \in {"", "keys", "path"} }

NoCommand == [name |-> "", filters |-> NoBuilt, strict |-> FALSE, dissect |-> ""]

RIdle ==
    /\ r_cmd = NoCommand
    /\ r_pc = "idle"
    /\ r_consumed = <<>>
    /\ r_cur = <<>>
    /\ runtime_cache = {}
    /\ r_stdout = <<>>
    /\ r_exc = ""
    /\ r_sigint = FALSE

RInit ==
    /\ r_cmd \in RunCommands
    /\ r_pc = "reading"
    /\ r_consumed = <<>>
    /\ r_cur = <<>>
    /\ runtime_cache = {}
    /\ r_stdout = <<>>
    /\ r_exc = ""
    /\ r_sigint = FALSE

\* read_stdin yields the next line, stripped.
ReadLine ==
    /\ r_pc = "reading"
    /\ Len(r_consumed) < MaxLines
    /\ \E raw \in RawLines :
          /\ r_cur' = PyStrip(raw)
          /\ r_consumed' = Append(r_consumed, PyStrip(raw))
    /\ r_pc' = "processing"
    /\ UNCHANGED <<r_cmd, runtime_cache, r_stdout, r_exc, r_sigint, dvars, fvars, cvars>>

\* stdin is at its end: the generator returns, the loop and the command end.
EndOfInput ==
    /\ r_pc = "reading"
    /\ r_pc' = "done"
    /\ UNCHANGED <<r_cmd, r_consumed, r_cur, runtime_cache, r_stdout, r_exc, r_sigint,
                   dvars, fvars, cvars>>

\* The body of process_stdin's loop on the line read.
ProcessOutput(cmd, res) ==
    IF res.exc # ""
    THEN /\ r_pc' = "crashed"
         /\ r_exc' = res.exc
         /\ UNCHANGED <<r_stdout, runtime_cache>>
    ELSE IF res.none
    THEN /\ r_pc' = "reading"
         /\ UNCHANGED <<r_exc, r_stdout, runtime_cache>>
    ELSE /\ r_pc' = "reading"
         /\ UNCHANGED r_exc
         /\ IF UsesUniques(cmd) THEN print_uniques(GetAttr(res.obj, AttrOf(cmd)))
            ELSE print_unique(GetAttr(res.obj, AttrOf(cmd)))

ProcessLine ==
    /\ r_pc = "processing"
    /\ UsesProcessStdin(r_cmd)
    /\ ProcessOutput(r_cmd, Middleware(r_cmd, r_cur))
    /\ UNCHANGED <<r_cmd, r_consumed, r_cur, r_sigint, dvars, fvars, cvars>>

\* The body of filter_command's own loop (lines 177-192) on the line read.
FilterOutput(url, res, separator) ==
    IF res.exc # ""
    THEN /\ r_pc' = "crashed"
         /\ r_exc' = res.exc
         /\ UNCHANGED <<r_stdout, runtime_cache>>
    ELSE IF res.none
    THEN /\ r_pc' = "reading"
         /\ UNCHANGED <<r_exc, r_stdout, runtime_cache>>
    ELSE IF separator = 0
    THEN /\ r_pc' = "reading"
         /\ UNCHANGED r_exc
         /\ print_unique([none |-> FALSE, val |-> url])
    ELSE IF clean_url(url, separator) \in runtime_cache
    THEN /\ r_pc' = "reading"
         /\ UNCHANGED <<r_exc, r_stdout, runtime_cache>>
    ELSE /\ r_pc' = "reading"
         /\ UNCHANGED r_exc
         /\ r_stdout' = Append(r_stdout, url)
         /\ runtime_cache' = runtime_cache \cup {clean_url(url, separator)}

\* url.find(url_object.path or url_object.raw_query)
Separator(url, o) == Find(url, IF o.path # <<>> THEN o.path ELSE o.raw_query)

FilterLine ==
    /\ r_pc = "processing"
    /\ ~UsesProcessStdin(r_cmd)
    /\ FilterOutput(r_cur, Middleware(r_cmd, r_cur),
                    Separator(r_cur, Middleware(r_cmd, r_cur).obj))
    /\ UNCHANGED <<r_cmd, r_consumed, r_cur, r_sigint, dvars, fvars, cvars>>

\* What the body of the loop may have printed when an interrupt cuts it short:
\* nothing, or a part of what it prints, the cache not yet updated.
Prefixes(s) == { SubSeq(s, 1, n) : n \in 0..Len(s) }

PartialOutput(cmd, res) ==
    IF res.exc # "" \/ res.none \/ ~UsesProcessStdin(cmd) THEN { <<>> }
    ELSE IF GetAttr(res.obj, AttrOf(cmd)).none THEN { <<>> }
    ELSE IF UsesUniques(cmd)
    THEN UNION { Prefixes(o) :
                   o \in Orderings(Range(GetAttr(res.obj, AttrOf(cmd)).val) \ runtime_cache) }
    ELSE IF GetAttr(res.obj, AttrOf(cmd)).val = <<>>
            \/ GetAttr(res.obj, AttrOf(cmd)).val \in runtime_cache
    THEN { <<>> }
    ELSE { <<>>, <<GetAttr(res.obj, AttrOf(cmd)).val>> }

\* An interrupt (KeyboardInterrupt) is delivered.  read_stdin's try/except (lines
\* 40-44) is around the generator's own code only: it catches the interrupt while
\* the generator waits for a line and returns; while the consumer's loop body
\* runs, the generator is suspended at its yield and the exception leaves the
\* command uncaught.
Interrupt ==
    /\ r_pc \in {"reading", "processing"}
    /\ ~r_sigint
    /\ r_sigint' = TRUE
    /\ IF r_pc = "reading"
       THEN /\ r_pc' = "done"
            /\ UNCHANGED <<r_exc, r_stdout>>
       ELSE /\ r_pc' = "crashed"
            /\ r_exc' = "KeyboardInterrupt"
            /\ \E out \in PartialOutput(r_cmd, Middleware(r_cmd, r_cur)) :
                  r_stdout' = r_stdout \o out
    /\ UNCHANGED <<r_cmd, r_consumed, r_cur, runtime_cache, dvars, fvars, cvars>>

(***************************************************************************)
(* cli/__init__.py: Cli.option, Cli.command and Cli.run over argparse.     *)
(***************************************************************************)
MaxDecorators == 3
MaxValues == 2

\* Option declarations as the source writes them: the first three are among
\* filter_command's (lines 120, 128, 130 of __main__.py), the last two are the
\* other (required, multiple) pairs option() accepts.
OptionDecls ==
    { [flag |-> "-scheme", type |-> "str", multiple |-> TRUE, required |-> TRUE],
      [flag |-> "-inverse", type |-> "bool", multiple |-> FALSE, required |-> FALSE],
      [flag |-> "-dissect", type |-> "str", multiple |-> FALSE, required |-> TRUE],
      [flag |-> "-x", type |-> "str", multiple |-> FALSE, required |-> FALSE],
      [flag |-> "-y", type |-> "str", multiple |-> TRUE, required |-> FALSE] }

CommandNames == {"keys", "filter"}

\* The keyword arguments option() builds for add_argument (lines 136-151); only
\* the boolean branch carries 'required'.
OptionKwargs(decl) ==
    IF decl.type = "bool"
    THEN [action |-> "store_true", required |-> decl.required]
    ELSE [type |-> decl.type,
          nargs |-> IF decl.multiple /\ decl.required THEN "+"
                    ELSE IF decl.multiple /\ ~decl.required THEN "*"
                    ELSE IF ~decl.multiple /\ decl.required THEN "None"
                    ELSE "?"]

\* argparse's add_argument: an optional argument is required only when the
\* 'required' keyword says so, and stores one value when no nargs is given.
AddArgument(flag, kwargs) ==
    [flag |-> flag,
     action |-> IF "action" \in DOMAIN kwargs THEN kwargs.action ELSE "store",
     nargs |-> IF "nargs" \in DOMAIN kwargs THEN kwargs.nargs ELSE "None",
     required |-> IF "required" \in DOMAIN kwargs THEN kwargs.required ELSE FALSE]

\* Whether argparse accepts n values after one occurrence of the argument.
AcceptsValues(arg, n) ==
    IF arg.action = "store_true" THEN n = 0
    ELSE CASE arg.nargs = "None" -> n = 1
           [] arg.nargs = "?" -> n <= 1
           [] arg.nargs = "*" -> TRUE
           [] arg.nargs = "+" -> n >= 1

\* parse_args on a sub-parser's arguments: argv names at most one flag, with n
\* values after it.
ParseError(arguments, argv) ==
    \/ \E i \in 1..Len(arguments) :
          arguments[i].flag = argv.flag /\ ~AcceptsValues(arguments[i], argv.nvalues)
    \/ \E i \in 1..Len(arguments) :
          arguments[i].required /\ arguments[i].flag # argv.flag

Reverse(s) == [i \in 1..Len(s) |-> s[Len(s) + 1 - i]]

CIdle ==
    /\ c_pc = "idle"
    /\ c_pending = <<>>
    /\ c_stack = <<>>
    /\ c_commands = <<>>
    /\ c_argv = [subcommand |-> "", flag |-> "", nvalues |-> 0]
    /\ c_outcome = [kind |-> "", command |-> ""]

\* Cli.__init__
CInit ==
    /\ c_pc = "registering"
    /\ c_pending = <<>>
    /\ c_stack = <<>>
    /\ c_commands = <<>>
    /\ c_argv = [subcommand |-> "", flag |-> "", nvalues |-> 0]
    /\ c_outcome = [kind |-> "", command |-> ""]

Decorated == Len(c_stack) + Len(c_commands)
     + Len(Concat([i \in 1..Len(c_commands) |-> c_commands[i].arguments]))

\* The option decorator appending to the queue instead of inserting at its front.
Option_Appending ==
    /\ c_pc = "registering"
    /\ Decorated < MaxDecorators
    /\ \E decl \in OptionDecls :
          /\ \A i \in 1..Len(c_stack) : c_stack[i].flag # decl.flag
          /\ c_pending' = Append(c_pending, [flag |-> decl.flag, kwargs |-> OptionKwargs(decl)])
          /\ c_stack' = Append(c_stack, decl)
    /\ UNCHANGED <<c_pc, c_commands, c_argv, c_outcome, dvars, fvars, rvars>>

\* The decorator option(flag, ...) returns is applied (lines 153-157).
Option ==
    /\ c_pc = "registering"
    /\ Decorated < MaxDecorators
    /\ \E decl \in OptionDecls :
          /\ \A i \in 1..Len(c_stack) : c_stack[i].flag # decl.flag
          /\ c_pending' = <<[flag |-> decl.flag, kwargs |-> OptionKwargs(decl)]>> \o c_pending
          /\ c_stack' = Append(c_stack, decl)
    /\ UNCHANGED <<c_pc, c_commands, c_argv, c_outcome, dvars, fvars, rvars>>

\* The decorator command(name) returns is applied (lines 89-109): a sub-parser
\* is created, every pending option is added to it in queue order, the queue is
\* cleared and the command registered.  `declared` keeps the decorators under
\* this command as the source lists them, top to bottom.
Command ==
    /\ c_pc = "registering"
    /\ Decorated < MaxDecorators
    /\ \E name \in CommandNames :
          /\ \A i \in 1..Len(c_commands) : c_commands[i].name # name
          /\ c_commands' = Append(c_commands,
                [name |-> name,
                 arguments |-> [i \in 1..Len(c_pending) |->
                                  AddArgument(c_pending[i].flag, c_pending[i].kwargs)],
                 declared |-> Reverse(c_stack)])
    /\ c_pending' = <<>>
    /\ c_stack' = <<>>
    /\ UNCHANGED <<c_pc, c_argv, c_outcome, dvars, fvars, rvars>>

\* The outcome of run() (lines 161-169) on an invocation.
RunOutcome(argv) ==
    IF argv.subcommand = "" THEN [kind |-> "help", command |-> ""]
    ELSE LET cmd == CHOOSE c \in Range(c_commands) : c.name = argv.subcommand IN
         IF ParseError(cmd.arguments, argv) THEN [kind |-> "error", command |-> cmd.name]
         ELSE [kind |-> "callback", command |-> cmd.name]

\* run(): the module has been loaded (every decorator stack ends in its command).
Run ==
    /\ c_pc = "registering"
    /\ c_pending = <<>>
    /\ \E argv \in [subcommand : {c.name : c \in Range(c_commands)} \cup {""},
                    flag : {d.flag : d \in OptionDecls} \cup {""},
                    nvalues : 0..MaxValues] :
          /\ argv.subcommand = "" => argv.flag = ""
          /\ argv.flag = "" => argv.nvalues = 0
          /\ argv.flag # "" =>
                \E c \in Range(c_commands) :
                   /\ c.name = argv.subcommand
                   /\ \E i \in 1..Len(c.arguments) : c.arguments[i].flag = argv.flag
          /\ c_argv' = argv
          /\ c_outcome' = RunOutcome(argv)
    /\ c_pc' = "ran"
    /\ UNCHANGED <<c_pending, c_stack, c_commands, dvars, fvars, rvars>>

(***************************************************************************)
(* Specifications.                                                         *)
(***************************************************************************)
\* One call of urldissect or querydissect.
DissectInit == DInit /\ FIdle /\ CIdle /\ RIdle
DissectNext == Dissect \/ QueryDissect
SpecDissect == DissectInit /\ [][DissectNext]_vars

\* One UrlFilters construction, then one call of urlfilter.
FilterInit == FInit /\ DIdle /\ CIdle /\ RIdle
FilterNext == Construct \/ Filter
SpecFilter == FilterInit /\ [][FilterNext]_vars

\* The module's decorators, then run().
CliInit == CInit /\ DIdle /\ FIdle /\ RIdle
CliNext == Option \/ Command \/ Run
SpecCli == CliInit /\ [][CliNext]_vars

\* One run of a subcommand over stdin.
Init == RInit /\ DIdle /\ FIdle /\ CIdle
Next == ReadLine \/ EndOfInput \/ ProcessLine \/ FilterLine \/ Interrupt
Spec == Init /\ [][Next]_vars

(***************************************************************************)
(* Properties.                                                             *)
(***************************************************************************)
NoDuplicates(s) == \A i, j \in 1..Len(s) : s[i] = s[j] => i = j

\* The filter names whose set is non-empty, and whether the URL's component is
\* a member of the set of name n.
NonEmptyFilters(sets) == { n \in FilterNames : ~sets[n].none /\ sets[n].items # {} }

ComponentOf(o, n) ==
    LET m == filter_mappings(o) IN m[CHOOSE i \in 1..Len(m) : m[i][1] = n][2]

IsMember(sets, o, n) == ComponentOf(o, n) \in sets[n].items

\* The rejection rule as the specification words it.
SpecRejects(sets, as_denylist, strict, o) ==
    LET all_match == \A n \in NonEmptyFilters(sets) : IsMember(sets, o, n)
        any_match == \E n \in NonEmptyFilters(sets) : IsMember(sets, o, n)
        all_final == IF as_denylist THEN all_match ELSE ~all_match
        any_final == IF as_denylist THEN any_match ELSE ~any_match
    IN /\ NonEmptyFilters(sets) # {}
       /\ \/ strict /\ all_final
          \/ ~strict /\ any_final

Dissects(url) == urldissect(url, TRUE).exc = "" /\ ~urldissect(url, TRUE).none

\* C1: for a URL that dissects, urlfilter returns absent exactly when some filter
\* set is non-empty and the rule on the membership flags rejects (all_match under
\* strictness, any_match without, both negated in allow-list mode); otherwise it
\* returns the URL unchanged, or the dissected record when return_obj is set.
C1_FilterDecision ==
    (f_pc = "filtered" /\ Dissects(f_url)) =>
        IF SpecRejects(f_built.sets, f_built.as_denylist, f_absolute,
                       urldissect(f_url, TRUE).obj)
        THEN f_out.exc = "" /\ f_out.none
        ELSE /\ f_out.exc = ""
             /\ ~f_out.none
             /\ f_out.isobj = f_return_obj
             /\ f_out.url = f_url
             /\ f_out.obj = urldissect(f_url, TRUE).obj

\* A strict allow-list with two non-empty sets rejects a URL that dissects.
C1_Witness ==
    /\ f_pc = "filtered"
    /\ Dissects(f_url)
    /\ f_absolute
    /\ ~f_built.as_denylist
    /\ Cardinality(NonEmptyFilters(f_built.sets)) >= 2
    /\ \E n \in NonEmptyFilters(f_built.sets) :
          IsMember(f_built.sets, urldissect(f_url, TRUE).obj, n)
    /\ f_out.exc = ""
    /\ f_out.none

\* C5: a UrlFilters construction with any subset of the filter sets supplied and
\* as_denylist omitted or not succeeds; every omitted set is empty, an omitted
\* as_denylist is false, and every supplied collection is stored as a set.
C5_ConstructionDefaults ==
    f_pc \in {"constructed", "failed", "filtered"} =>
        /\ f_built.exc = ""
        /\ \A n \in FilterNames \ f_kwargs.supplied : ~Truthy(f_built.sets[n])
        /\ "as_denylist" \notin f_kwargs.supplied => ~f_built.as_denylist
        /\ \A n \in FilterNames \cap f_kwargs.supplied :
              ~f_kwargs.vals[n].none =>
                  /\ f_built.sets[n].kind = "set"
                  /\ n # "extensions" => f_built.sets[n].items = f_kwargs.vals[n].items

\* C7: the port of a dissected record is the decimal text of the URL's port, and
\* the empty string when the URL carries no port.
C7_PortText ==
    (d_pc = "dissected" /\ d_res.exc = "" /\ ~d_res.none) =>
        d_res.obj.port = IF d_parts.port = <<>> THEN <<>>
                         ELSE IntToStr(ParseInt(Tail(d_parts.port)))

\* C8: querydissect returns one QueryObject per '&'-separated segment, in order,
\* each segment decoded and then split at its first '=' only (the value keeps
\* any further '='); the empty query gives the empty sequence.
C8_SplitOnFirstEquals ==
    d_pc = "querydissected" =>
        /\ d_qres.exc = ""
        /\ IF d_in = <<>> THEN d_qres.val = <<>>
           ELSE LET segs == Split(d_in, "&") IN
                /\ Len(d_qres.val) = Len(segs)
                /\ \A i \in 1..Len(segs) :
                      Contains(unquote_plus(segs[i]), <<"=">>) =>
                          /\ d_qres.val[i].key = Partition(unquote_plus(segs[i]), <<"=">>)[1]
                          /\ d_qres.val[i].value = Partition(unquote_plus(segs[i]), <<"=">>)[3]

\* C6: an option registered with required and multiple rejects an invocation in
\* which it does not occur (run() ends in the parser's error, the callback is not
\* invoked); an option neither required nor multiple accepts no occurrence and
\* one occurrence.
InvokedCommand == CHOOSE c \in Range(c_commands) : c.name = c_argv.subcommand

C6_RequiredOptionEnforced ==
    (c_pc = "ran" /\ c_argv.subcommand # "") =>
        /\ (\E d \in Range(InvokedCommand.declared) :
               d.required /\ d.multiple /\ d.flag # c_argv.flag)
             => c_outcome.kind = "error"
        /\ (/\ Len(InvokedCommand.declared) = 1
            /\ ~InvokedCommand.declared[1].required
            /\ ~InvokedCommand.declared[1].multiple
            /\ InvokedCommand.declared[1].type = "str"
            /\ c_argv.flag \in {"", InvokedCommand.declared[1].flag}
            /\ c_argv.nvalues <= 1)
             => c_outcome.kind = "callback"

\* The values a line contributes to the output of a command: those of the
\* extracted attribute, none when the line is skipped.
LineValues(cmd, line) ==
    LET res == Middleware(cmd, line) IN
    IF res.exc # "" \/ res.none THEN {}
    ELSE IF GetAttr(res.obj, AttrOf(cmd)).none THEN {}
    ELSE IF UsesUniques(cmd) THEN Range(GetAttr(res.obj, AttrOf(cmd)).val)
    ELSE IF GetAttr(res.obj, AttrOf(cmd)).val = <<>> THEN {}
    ELSE { GetAttr(res.obj, AttrOf(cmd)).val }

ConsumedValues == UNION { LineValues(r_cmd, r_consumed[i]) : i \in 1..Len(r_consumed) }

\* C2: in a run of one of the seven dissecting commands no string is printed
\* twice; between lines the printed strings are exactly the values of the lines
\* read (non-empty ones for the single-value policy, every member of a batch
\* once for the multi-value policy), and once a policy call has returned every
\* printed string is in the cache.
C2_PrintedOnce ==
    r_cmd.name \in DissectCommands =>
        /\ NoDuplicates(r_stdout)
        /\ r_exc # "KeyboardInterrupt" => Range(r_stdout) \subseteq runtime_cache
        /\ ~UsesUniques(r_cmd) => <<>> \notin Range(r_stdout)
        /\ r_pc \in {"reading", "done"} => Range(r_stdout) = ConsumedValues

\* Two identical lines whose batch holds a key several times: the key is printed
\* once.
C2_Witness ==
    /\ r_cmd.name = "keys"
    /\ r_pc = "reading"
    /\ Len(r_consumed) = 2
    /\ r_consumed[1] = r_consumed[2]
    /\ Len(UrlObject_keys(urldissect(r_consumed[1], TRUE).obj).val) > 1
    /\ Len(r_stdout) = 1

\* The values of each line read, in input order.
ConsumedLineValues == [i \in 1..Len(r_consumed) |-> LineValues(r_cmd, r_consumed[i])]

\* The first line that contributes value v to lv (0 when none does).
FirstLine(lv, v) ==
    IF \E i \in 1..Len(lv) : v \in lv[i]
    THEN CHOOSE i \in 1..Len(lv) : v \in lv[i] /\ \A j \in 1..(i - 1) : v \notin lv[j]
    ELSE 0

\* The distinct elements of a sequence in order of first occurrence.
RECURSIVE FirstOccurrences(_)
FirstOccurrences(s) ==
    IF s = <<>> THEN <<>>
    ELSE IF s[Len(s)] \in Range(SubSeq(s, 1, Len(s) - 1))
         THEN FirstOccurrences(SubSeq(s, 1, Len(s) - 1))
    ELSE Append(FirstOccurrences(SubSeq(s, 1, Len(s) - 1)), s[Len(s)])

\* The non-empty values of the lines in lv, in input order (single-value commands).
SingleValues(lv) ==
    Concat([i \in 1..Len(lv) |->
              IF lv[i] = {} THEN <<>> ELSE <<CHOOSE v \in lv[i] : TRUE>>])

\* C9: output follows arrival order: every printed value belongs to a line read,
\* a value first contributed by an earlier line is printed before a value first
\* contributed by a later one, and between lines a single-value command has
\* printed exactly the distinct non-empty values in order of first occurrence.
C9_OutputOrder ==
    r_cmd.name \in DissectCommands =>
        LET lv == ConsumedLineValues
            first == [p \in 1..Len(r_stdout) |-> FirstLine(lv, r_stdout[p])]
        IN /\ \A p \in 1..Len(r_stdout) : first[p] > 0
           /\ \A p, q \in 1..Len(r_stdout) : p < q => first[p] <= first[q]
           /\ (~UsesUniques(r_cmd) /\ r_pc \in {"reading", "done"})
                 => r_stdout = FirstOccurrences(SingleValues(lv))

\* Three lines, the second repeating the first one's path: two paths printed.
C9_Witness ==
    /\ r_cmd.name = "path"
    /\ r_pc = "done"
    /\ Len(r_consumed) = 3
    /\ LineValues(r_cmd, r_consumed[1]) # {}
    /\ LineValues(r_cmd, r_consumed[1]) = LineValues(r_cmd, r_consumed[2])
    /\ r_consumed[1] # r_consumed[2]
    /\ Len(r_stdout) = 2

\* A line urldissect returns None for: no explicit scheme, no IPv4 host, no
\* public suffix.
Undissectable(line) == urldissect(line, TRUE).exc = "" /\ urldissect(line, TRUE).none

InterruptStep == ~r_sigint /\ r_sigint'

\* C3: in every command, filter included, a line that cannot be dissected is
\* skipped: no output, no error, the cache unchanged, and the next line is read.
C3_UndissectableSkipped ==
    [][(r_pc = "processing" /\ Undissectable(r_cur) /\ ~InterruptStep) =>
          /\ r_pc' = "reading"
          /\ r_exc' = ""
          /\ r_stdout' = r_stdout
          /\ runtime_cache' = runtime_cache]_vars

\* C4: in a filter run the -strict flag reaches urlfilter as its strictness
\* parameter: on every line on which urlfilter itself returns, the call made by
\* the command completes with that result and the next line is read.
C4_StrictReachesUrlfilter ==
    [][(/\ r_cmd.name = "filter"
        /\ r_pc = "processing"
        /\ ~InterruptStep
        /\ urlfilter(r_cur, r_cmd.filters, r_cmd.strict, TRUE).exc = "") =>
          /\ r_pc' = "reading"
          /\ r_exc' = ""]_vars

\* C10: an interrupt delivered at any point of a run ends the read loop cleanly:
\* the command returns normally and no error is surfaced.
C10_InterruptEndsCleanly == r_sigint => (r_pc = "done" /\ r_exc = "")

\* A filter check is met by the URL: in allow-list mode its component is in the
\* set, in deny-list mode it is not.
CheckMet(filters, o, n) ==
    IF filters.as_denylist THEN ~IsMember(filters.sets, o, n)
    ELSE IsMember(filters.sets, o, n)

FOutReturned == f_out.exc = "" /\ ~f_out.none

\* C11: in either mode, with the strictness flag true a URL is returned only if
\* every non-empty filter check is met; with it false a URL is returned if any
\* single filter check is met.
C11_StrictnessSemantics ==
    (f_pc = "filtered" /\ Dissects(f_url) /\ NonEmptyFilters(f_built.sets) # {}) =>
        /\ f_absolute =>
             (FOutReturned =>
                \A n \in NonEmptyFilters(f_built.sets) :
                   CheckMet(f_built, urldissect(f_url, TRUE).obj, n))
        /\ ~f_absolute =>
             ((\E n \in NonEmptyFilters(f_built.sets) :
                   CheckMet(f_built, urldissect(f_url, TRUE).obj, n))
                => FOutReturned)

\* The same filter sets in the other mode.
OtherMode(filters) == [filters EXCEPT !.as_denylist = ~filters.as_denylist]

Accepts(out) == out.exc = "" /\ ~out.none

\* C15: allow-list and deny-list are complements: with a non-empty filter set a
\* dissectable URL is accepted in one mode exactly when the same sets, strictness
\* and URL are rejected in the other; with every set empty both modes accept.
C15_ModesComplement ==
    (f_pc = "filtered" /\ Dissects(f_url)) =>
        IF NonEmptyFilters(f_built.sets) # {}
        THEN Accepts(f_out) <=>
                ~Accepts(urlfilter(f_url, OtherMode(f_built), f_absolute, f_return_obj))
        ELSE /\ Accepts(f_out)
             /\ Accepts(urlfilter(f_url, OtherMode(f_built), f_absolute, f_return_obj))

\* A deny-list run that accepts a URL the allow-list of the same two sets rejects.
C15_Witness ==
    /\ f_pc = "filtered"
    /\ Dissects(f_url)
    /\ f_built.as_denylist
    /\ Cardinality(NonEmptyFilters(f_built.sets)) >= 2
    /\ Accepts(f_out)
    /\ ~Accepts(urlfilter(f_url, OtherMode(f_built), f_absolute, f_return_obj))

\* The arguments a sub-parser gets for option declarations listed top to bottom.
ArgumentsFor(decls) ==
    [i \in 1..Len(decls) |-> AddArgument(decls[i].flag, OptionKwargs(decls[i]))]

\* C12: registering a command attaches exactly the options queued since the
\* previous registration, in top-to-bottom declaration order, and leaves the
\* queue empty; the commands registered before keep their arguments, and an
\* option decorator attaches nothing, so no option reaches two commands.
C12_QueueFlush ==
    [][/\ Len(c_commands') > Len(c_commands) =>
            /\ Len(c_commands') = Len(c_commands) + 1
            /\ SubSeq(c_commands', 1, Len(c_commands)) = c_commands
            /\ c_commands'[Len(c_commands')].arguments = ArgumentsFor(Reverse(c_stack))
            /\ c_pending' = <<>>
       /\ Len(c_pending') > Len(c_pending) =>
            /\ c_commands' = c_commands
            /\ Len(c_pending') = Len(c_pending) + 1]_vars

\* A command registered with two different options stacked under it: it holds
\* both, in declaration order, and the queue is empty.
C12_Witness ==
    /\ Len(c_commands) >= 1
    /\ Len(c_commands[1].arguments) = 2
    /\ c_commands[1].arguments[1].flag # c_commands[1].arguments[2].flag
    /\ c_commands[1].arguments = ArgumentsFor(c_commands[1].declared)
    /\ c_pending = <<>>

\* A filter run without -dissect is on line r_cur, and urlfilter, given the
\* command's filters and strictness, lets the line through.
FilterLoopStep ==
    /\ r_cmd.name = "filter"
    /\ r_cmd.dissect = ""
    /\ r_pc = "processing"
    /\ ~InterruptStep

Survives(line) == Accepts(urlfilter(line, r_cmd.filters, r_cmd.strict, TRUE))

\* Where the path (lacking one, the raw query) begins in a line that holds it:
\* the line ends with the path, '?' and the query, '#' and the fragment.
LineTail(o) ==
    o.path \o (IF o.raw_query # <<>> THEN <<"?">> \o o.raw_query ELSE <<>>)
           \o (IF o.fragment # <<>> THEN <<"#">> \o o.fragment ELSE <<>>)

Boundary(line, o) ==
    IF o.path # <<>> THEN Len(line) - Len(LineTail(o))
    ELSE Len(line) - Len(LineTail(o)) + (IF o.raw_query # <<>> THEN 1 ELSE 0)

Located(line) == Separator(line, urldissect(line, TRUE).obj) # -1

\* The normalized shape of a line: the part before the boundary unchanged, every
\* digit run right after '/' or '=' in the rest replaced by "0".
ShapeOf(line) ==
    Upto(line, Boundary(line, urldissect(line, TRUE).obj))
      \o SubDigits(From(line, Boundary(line, urldissect(line, TRUE).obj)), 1)

\* C13: in a filter run without -dissect a line that survives filtering is
\* printed, as its original text, exactly when no line printed before has its
\* normalized shape, and the next line is read.
C13_ShapeDedup ==
    [][(FilterLoopStep /\ Survives(r_cur) /\ Located(r_cur)) =>
          /\ r_pc' = "reading"
          /\ r_exc' = ""
          /\ r_stdout' = IF \E l \in Range(r_stdout) : ShapeOf(l) = ShapeOf(r_cur)
                         THEN r_stdout
                         ELSE Append(r_stdout, r_cur)]_vars

\* C14: in a filter run without -dissect a surviving line in which the start of
\* the path (or raw query) cannot be located is handled by exact dedup on the
\* whole line: printed and cached iff its text is not in the cache.
C14_UnlocatedFallback ==
    [][(FilterLoopStep /\ Survives(r_cur) /\ ~Located(r_cur)) =>
          /\ r_pc' = "reading"
          /\ r_exc' = ""
          /\ IF r_cur \in runtime_cache
             THEN r_stdout' = r_stdout /\ runtime_cache' = runtime_cache
             ELSE /\ r_stdout' = Append(r_stdout, r_cur)
                  /\ runtime_cache' = runtime_cache \cup {r_cur}]_vars

====
